---- MODULE Spec2Model ----
(***************************************************************************)
(* Model of src/dialogs/base_dialog.py, class BaseDialog: the helpers      *)
(* shared by the editing dialogs of the parts file program.                *)
(*                                                                         *)
(*   set_table_header(table, col_names, col_widths, stretch_column)        *)
(*   save_buttons_enable(enable)                                           *)
(*   fill_order_table_fields(part_number)                                  *)
(*                                                                         *)
(* The dialog's form (form.order_table, form.save_new_button,              *)
(* form.save_done_button) is installed by the concrete dialogs; the order  *)
(* table has the eight columns of PART_ORDER_COL_NAMES.  The table handed  *)
(* to set_table_header is the caller's: it is modelled by its header       *)
(* (column count, labels, widths, resize modes).                           *)
(*                                                                         *)
(* Rows and columns are numbered from 0 in the code.  A column k of a row  *)
(* is row[k], k \in 0..7; row r of the table is order_table[r + 1], rows   *)
(* being kept as a sequence.                                               *)
(***************************************************************************)
EXTENDS Integers, Sequences, FiniteSets, TLC

VARIABLES
    parts_file,        \* the parts file: [orders, order_lines]
    order_table,       \* form.order_table: the sequence of its rows
    save_new_button,   \* form.save_new_button: its enabled state
    save_done_button,  \* form.save_done_button: its enabled state
    table,             \* the QTableWidget handed to set_table_header
    call               \* the last call made on the dialog and what it did

vars == <<parts_file, order_table, save_new_button, save_done_button, table, call>>

-----------------------------------------------------------------------------
(* Bounds of the model. *)

\* the longest order line table of a parts file
MaxLines == 3
\* the longest col_names list other than PART_ORDER_COL_NAMES
MaxNames == 2
\* the longest col_widths list other than PART_ORDER_COL_WIDTHS
MaxWidths == 3

-----------------------------------------------------------------------------
(* Small helpers. *)

\* Python's None
None == "None"

\* 0-based access to a list kept as a sequence
At(list, i) == list[i + 1]

-----------------------------------------------------------------------------
(* The class constants. *)

PART_ORDER_COL_NAMES ==
    << "Order", "Date", "Source", "Line", "Part Number", "Cost Each",
       "Quantity", "Remarks" >>

PART_ORDER_COL_WIDTHS == << 60, 100, 60, 40, 120, 70, 100, 1 >>

\* the columns of the order table
OrderCols == 0 .. (Len(PART_ORDER_COL_NAMES) - 1)

-----------------------------------------------------------------------------
(* Qt: text alignment flags and table items. *)

AlignHCenter == "AlignHCenter"
AlignVCenter == "AlignVCenter"
AlignRight == "AlignRight"

\* QTableWidgetItem(text): an item whose alignment has not been set
QTableWidgetItem(text) == [item |-> TRUE, text |-> text, align |-> {}]

\* entry.setTextAlignment(flags)
setTextAlignment(entry, flags) == [entry EXCEPT !.align = flags]

\* a cell that holds no item
NoItem == [item |-> FALSE, text |-> "", align |-> {}]

EmptyRow == [k \in OrderCols |-> NoItem]

\* table.setRowCount(n): rows beyond n are removed, missing rows are added
\* empty, and the rows that stay keep their items
setRowCount(rows, n) ==
    IF n <= Len(rows)
    THEN SubSeq(rows, 1, n)
    ELSE rows \o [i \in 1 .. (n - Len(rows)) |-> EmptyRow]

-----------------------------------------------------------------------------
(* The parts file: the orders and the order lines it holds. *)

OrderRecords ==
    { [order_number |-> "23-001", date |-> "01/05/2023", source |-> "Moss"],
      [order_number |-> "23-002", date |-> "02/10/2023", source |-> "Ebay"] }

\* cost_each as stored: a number, kept in tenths, or text that is no number
Cost(tenths) == [numeric |-> TRUE, tenths |-> tenths]
NotANumber == [numeric |-> FALSE, tenths |-> 0]

OrderLineRecords ==
    { [order_number |-> "23-001", line |-> 1, part_number |-> "P1",
       cost_each |-> Cost(35), quantity |-> 2, remarks |-> "r1"],
      [order_number |-> "23-001", line |-> 2, part_number |-> "P2",
       cost_each |-> Cost(120), quantity |-> 1, remarks |-> ""],
      [order_number |-> "23-002", line |-> 1, part_number |-> "P1",
       cost_each |-> Cost(7), quantity |-> 3, remarks |-> "r3"],
      [order_number |-> "23-002", line |-> 2, part_number |-> "P1",
       cost_each |-> Cost(120), quantity |-> 1, remarks |-> "r4"],
      [order_number |-> "23-002", line |-> 3, part_number |-> "P1",
       cost_each |-> NotANumber, quantity |-> 4, remarks |-> "r5"],
      [order_number |-> "23-002", line |-> 4, part_number |-> "",
       cost_each |-> Cost(35), quantity |-> 1, remarks |-> "r6"] }

\* the part numbers a dialog asks for: two parts, the empty string and None
PartNumbers == {"P1", "P2", "", None}

\* sequences without repetition, of length at most n, over the set S
RECURSIVE SeqsUpTo(_, _)
SeqsUpTo(S, n) ==
    IF n = 0
    THEN {<<>>}
    ELSE LET shorter == SeqsUpTo(S, n - 1)
         IN  shorter \cup
             { Append(s, x) : s \in { t \in shorter : Len(t) = n - 1 },
                              x \in S }

Distinct(s) == \A i, j \in 1 .. Len(s) : s[i] = s[j] => i = j

PartsFiles ==
    { [orders |-> o, order_lines |-> l] :
        o \in SUBSET OrderRecords,
        l \in { s \in SeqsUpTo(OrderLineRecords, MaxLines) : Distinct(s) } }

-----------------------------------------------------------------------------
(* The data-access layer (package elements): OrderLineSet and Order. *)

\* order numbers compare as strings; their order, as ranks
OrderNumberRank == ("23-001" :> 1) @@ ("23-002" :> 2)

\* s with x put after the last element whose order number is not larger
RECURSIVE InsertByOrderNumber(_, _)
InsertByOrderNumber(s, x) ==
    IF s = <<>>
    THEN <<x>>
    ELSE IF OrderNumberRank[x.order_number] < OrderNumberRank[Head(s).order_number]
         THEN <<x>> \o s
         ELSE <<Head(s)>> \o InsertByOrderNumber(Tail(s), x)

\* s ordered by order number, lines of one order in the order of s
RECURSIVE OrderedByOrderNumber(_)
OrderedByOrderNumber(s) ==
    IF s = <<>>
    THEN <<>>
    ELSE InsertByOrderNumber(OrderedByOrderNumber(SubSeq(s, 1, Len(s) - 1)),
                             s[Len(s)])

\* OrderLineSet(parts_file, "part_number", part_number, "order_number"):
\* the order lines selected on part_number, ordered by order_number
OrderLineSet(file, part_number) ==
    OrderedByOrderNumber(
        SelectSeq(file.order_lines, LAMBDA l : l.part_number = part_number))

\* order_lines.get_number_elements()
get_number_elements(order_lines) == Len(order_lines)

\* whether the parts file holds the order
OrderFound(file, order_number) ==
    \E o \in file.orders : o.order_number = order_number

\* Order(parts_file, order_number): the order read from the parts file; an
\* order the file does not hold has an empty date and source
Order(file, order_number) ==
    IF OrderFound(file, order_number)
    THEN CHOOSE o \in file.orders : o.order_number = order_number
    ELSE [order_number |-> order_number, date |-> "", source |-> ""]

-----------------------------------------------------------------------------
(* Python conversions used to build the cells. *)

\* str(n) of an integer
Str(n) == ToString(n)

\* whether float(cost_each) raises
FloatRaises(cost_each) == ~cost_each.numeric

\* format(float(cost_each), ".2f") of a number held in tenths
Format2f(cost_each) ==
    Str(cost_each.tenths \div 10) \o "." \o Str(cost_each.tenths % 10) \o "0"

-----------------------------------------------------------------------------
(* fill_order_table_fields *)

\* RowEntry with the date and the source in each other's column
RowEntryDateSourceSwapped(k, order_line, order) ==
    CASE k = 0 -> setTextAlignment(QTableWidgetItem(order_line.order_number),
                                   {AlignHCenter, AlignVCenter})
      [] k = 1 -> setTextAlignment(QTableWidgetItem(order.source),
                                   {AlignHCenter, AlignVCenter})
      [] k = 2 -> QTableWidgetItem(order.date)
      [] k = 3 -> setTextAlignment(QTableWidgetItem(Str(order_line.line)),
                                   {AlignHCenter, AlignVCenter})
      [] k = 4 -> QTableWidgetItem(order_line.part_number)
      [] k = 5 -> setTextAlignment(QTableWidgetItem(Format2f(order_line.cost_each)),
                                   {AlignRight, AlignVCenter})
      [] k = 6 -> setTextAlignment(QTableWidgetItem(Str(order_line.quantity)),
                                   {AlignHCenter, AlignVCenter})
      [] k = 7 -> QTableWidgetItem(order_line.remarks)

\* RowEntry with the alignment of the cost left as the item has it
RowEntryCostNotAligned(k, order_line, order) ==
    CASE k = 0 -> setTextAlignment(QTableWidgetItem(order_line.order_number),
                                   {AlignHCenter, AlignVCenter})
      [] k = 1 -> setTextAlignment(QTableWidgetItem(order.date),
                                   {AlignHCenter, AlignVCenter})
      [] k = 2 -> QTableWidgetItem(order.source)
      [] k = 3 -> setTextAlignment(QTableWidgetItem(Str(order_line.line)),
                                   {AlignHCenter, AlignVCenter})
      [] k = 4 -> QTableWidgetItem(order_line.part_number)
      [] k = 5 -> QTableWidgetItem(Format2f(order_line.cost_each))
      [] k = 6 -> setTextAlignment(QTableWidgetItem(Str(order_line.quantity)),
                                   {AlignHCenter, AlignVCenter})
      [] k = 7 -> QTableWidgetItem(order_line.remarks)

\* the item the loop body puts in column k of the row of order_line
\* (lines 119-152)
RowEntry(k, order_line, order) ==
    CASE k = 0 -> setTextAlignment(QTableWidgetItem(order_line.order_number),
                                   {AlignHCenter, AlignVCenter})
      [] k = 1 -> setTextAlignment(QTableWidgetItem(order.date),
                                   {AlignHCenter, AlignVCenter})
      [] k = 2 -> QTableWidgetItem(order.source)
      [] k = 3 -> setTextAlignment(QTableWidgetItem(Str(order_line.line)),
                                   {AlignHCenter, AlignVCenter})
      [] k = 4 -> QTableWidgetItem(order_line.part_number)
      [] k = 5 -> setTextAlignment(QTableWidgetItem(Format2f(order_line.cost_each)),
                                   {AlignRight, AlignVCenter})
      [] k = 6 -> setTextAlignment(QTableWidgetItem(Str(order_line.quantity)),
                                   {AlignHCenter, AlignVCenter})
      [] k = 7 -> QTableWidgetItem(order_line.remarks)

\* the first column the loop body does not reach for order_line: 0 when
\* Order(...) raises (line 118), 5 when float(...) raises (line 141), and
\* the column count when nothing raises
RaisesAt(order_line, file, lookup_raises) ==
    IF lookup_raises /\ ~OrderFound(file, order_line.order_number)
    THEN 0
    ELSE IF FloatRaises(order_line.cost_each)
         THEN 5
         ELSE Len(PART_ORDER_COL_NAMES)

\* FillRow putting the row back as it was when the loop body raises
FillRowRolledBack(old_row, order_line, file, lookup_raises) ==
    LET order == Order(file, order_line.order_number)
        stop == RaisesAt(order_line, file, lookup_raises)
    IN  IF stop < Len(PART_ORDER_COL_NAMES)
        THEN old_row
        ELSE [k \in OrderCols |-> RowEntry(k, order_line, order)]

\* one pass of the loop body on the row: the cells set before a raise
FillRow(old_row, order_line, file, lookup_raises) ==
    LET order == Order(file, order_line.order_number)
        stop == RaisesAt(order_line, file, lookup_raises)
    IN  [k \in OrderCols |->
            IF k < stop THEN RowEntry(k, order_line, order) ELSE old_row[k]]

\* the for loop from row on (lines 116-153): the rows of the table, whether
\* the loop raised, and the cells it set
RECURSIVE FillLoop(_, _, _, _, _, _)
FillLoop(rows, order_lines, row, file, lookup_raises, cells) ==
    IF row >= Len(order_lines)
    THEN [rows |-> rows, raised |-> FALSE, cells |-> cells]
    ELSE LET order_line == At(order_lines, row)
             stop == RaisesAt(order_line, file, lookup_raises)
             filled == [rows EXCEPT ![row + 1] =
                           FillRow(rows[row + 1], order_line, file, lookup_raises)]
             now == cells \cup { <<row, k>> : k \in 0 .. (stop - 1) }
         IN  IF stop < Len(PART_ORDER_COL_NAMES)
             THEN [rows |-> filled, raised |-> TRUE, cells |-> now]
             ELSE FillLoop(filled, order_lines, row + 1, file, lookup_raises, now)

\* SelectedOrderLines without the test of part_number
SelectedOrderLinesUnchecked(file, part_number) ==
    OrderLineSet(file, part_number)

\* the order lines the loop runs over (lines 109-113)
SelectedOrderLines(file, part_number) ==
    IF part_number \in {"", None}
    THEN <<>>
    ELSE OrderLineSet(file, part_number)

\* FillOrderTable with a row for every order line of the parts file
FillOrderTableAllLines(rows, file, part_number, lookup_raises) ==
    LET order_lines == SelectedOrderLines(file, part_number)
    IN  FillLoop(setRowCount(rows, Len(file.order_lines)),
                 order_lines, 0, file, lookup_raises, {})

\* FillOrderTable keeping the rows of a table that is large enough
FillOrderTableRowsKept(rows, file, part_number, lookup_raises) ==
    LET order_lines == SelectedOrderLines(file, part_number)
        n == get_number_elements(order_lines)
    IN  FillLoop(IF n <= Len(rows) THEN rows ELSE setRowCount(rows, n),
                 order_lines, 0, file, lookup_raises, {})

\* the whole call, on the rows the order table holds
FillOrderTable(rows, file, part_number, lookup_raises) ==
    LET order_lines == SelectedOrderLines(file, part_number)
    IN  FillLoop(setRowCount(rows, get_number_elements(order_lines)),
                 order_lines, 0, file, lookup_raises, {})

fill_order_table_fields(part_number, lookup_raises) ==
    LET done == FillOrderTable(order_table, parts_file, part_number, lookup_raises)
    IN  /\ order_table' = done.rows
        /\ call' = [op |-> "fill_order_table_fields",
                    part_number |-> part_number,
                    lookup_raises |-> lookup_raises,
                    raised |-> done.raised,
                    cells |-> done.cells,
                    before |-> order_table,
                    saved |-> call.saved]
        /\ UNCHANGED <<parts_file, save_new_button, save_done_button, table>>

-----------------------------------------------------------------------------
(* save_buttons_enable *)

\* save_buttons_enable acting on the save_new button alone
SaveNewButtonOnly(enable) ==
    /\ save_new_button' = enable
    /\ call' = [op |-> "save_buttons_enable",
                part_number |-> None,
                lookup_raises |-> FALSE,
                raised |-> FALSE,
                cells |-> {},
                before |-> order_table,
                saved |-> {enable}]
    /\ UNCHANGED <<parts_file, order_table, save_done_button, table>>

save_buttons_enable(enable) ==
    /\ save_new_button' = enable
    /\ save_done_button' = enable
    /\ call' = [op |-> "save_buttons_enable",
                part_number |-> None,
                lookup_raises |-> FALSE,
                raised |-> FALSE,
                cells |-> {},
                before |-> order_table,
                saved |-> {enable}]
    /\ UNCHANGED <<parts_file, order_table, table>>


-----------------------------------------------------------------------------
(* Qt: the header of a table widget.  A table is the sequence of its       *)
(* columns' header labels, widths and resize modes; column i is element    *)
(* i + 1.  A width is the set holding the width that was set, empty while  *)
(* the column has its default width.                                       *)

Interactive == "Interactive"
Stretch == "Stretch"

columnCount(t) == Len(t.labels)

\* table.setColumnCount(n): columns beyond n are removed; a new column is
\* labelled by its number, has the default width and is interactive
setColumnCount(t, n) ==
    [labels |-> [i \in 1 .. n |->
                    IF i <= Len(t.labels) THEN t.labels[i] ELSE ToString(i)],
     widths |-> [i \in 1 .. n |->
                    IF i <= Len(t.widths) THEN t.widths[i] ELSE {}],
     modes |-> [i \in 1 .. n |->
                    IF i <= Len(t.modes) THEN t.modes[i] ELSE Interactive]]

\* table.setHorizontalHeaderLabels(labels): the columns that exist take the
\* labels, in order
setHorizontalHeaderLabels(t, labels) ==
    [t EXCEPT !.labels =
        [i \in 1 .. Len(t.labels) |->
            IF i <= Len(labels) THEN labels[i] ELSE t.labels[i]]]

\* table.setColumnWidth(i, width): a column that does not exist is left out
setColumnWidth(t, i, width) ==
    IF i < columnCount(t)
    THEN [t EXCEPT !.widths[i + 1] = {width}]
    ELSE t

\* table.horizontalHeader().setSectionResizeMode(i, mode)
setSectionResizeMode(t, i, mode) ==
    IF i < columnCount(t)
    THEN [t EXCEPT !.modes[i + 1] = mode]
    ELSE t

-----------------------------------------------------------------------------
(* set_table_header.  stretch_column is the set holding the column number, *)
(* empty for None.                                                         *)

\* the columns the loop calls setColumnWidth on (line 84)
WidthRange(col_names, col_widths) == 0 .. (Len(col_widths) - 1)

\* for i in range(0, len(col_widths)): table.setColumnWidth(i, col_widths[i])
RECURSIVE SetWidths(_, _, _)
SetWidths(t, todo, col_widths) ==
    IF todo = {}
    THEN t
    ELSE LET i == CHOOSE x \in todo : \A y \in todo : x <= y
         IN  SetWidths(setColumnWidth(t, i, At(col_widths, i)),
                       todo \ {i}, col_widths)

\* HeaderColumnCount taken from the widths
HeaderColumnCountFromWidths(col_names, col_widths) == Len(col_widths)

\* the number handed to setColumnCount (line 82)
HeaderColumnCount(col_names, col_widths) == Len(col_names)

\* StretchAsked as "if stretch_column:", column 0 taken as absent
StretchAskedTruthy(stretch_column) ==
    stretch_column # {} /\ stretch_column # {0}

\* if stretch_column is not None (line 86)
StretchAsked(stretch_column) == stretch_column # {}

\* the columns setSectionResizeMode is called on (lines 86-89)
StretchCalls(stretch_column) ==
    IF StretchAsked(stretch_column) THEN stretch_column ELSE {}

RECURSIVE SetStretch(_, _)
SetStretch(t, columns) ==
    IF columns = {}
    THEN t
    ELSE LET i == CHOOSE x \in columns : TRUE
         IN  SetStretch(setSectionResizeMode(t, i, Stretch), columns \ {i})

\* the table after the call (lines 82-89)
SetTableHeader(t, col_names, col_widths, stretch_column) ==
    LET counted == setColumnCount(t, HeaderColumnCount(col_names, col_widths))
        labelled == setHorizontalHeaderLabels(counted, col_names)
        sized == SetWidths(labelled, WidthRange(col_names, col_widths), col_widths)
    IN  SetStretch(sized, StretchCalls(stretch_column))

set_table_header(col_names, col_widths, stretch_column) ==
    /\ table' = SetTableHeader(table, col_names, col_widths, stretch_column)
    /\ call' = [op |-> "set_table_header",
                col_names |-> col_names,
                col_widths |-> col_widths,
                stretch_column |-> stretch_column,
                width_calls |->
                    { <<i, At(col_widths, i)>> :
                        i \in WidthRange(col_names, col_widths) },
                stretch_calls |-> StretchCalls(stretch_column)]
    /\ UNCHANGED <<parts_file, order_table, save_new_button, save_done_button>>

-----------------------------------------------------------------------------
(* The dialog with its form, on one parts file. *)

\* the record of the last call: the operation and its arguments, whether
\* it raised, the cells of the order table it set (row, column), the rows
\* the order table held before it, and the arguments of the last
\* save_buttons_enable so far (none, or one)
NoCall == [op |-> "none", part_number |-> None, lookup_raises |-> FALSE,
           raised |-> FALSE, cells |-> {}, before |-> <<>>, saved |-> {}]

\* a table widget as constructed: no column
NewTable == [labels |-> <<>>, widths |-> <<>>, modes |-> <<>>]

InitForm ==
    /\ order_table = <<>>
    /\ save_new_button = TRUE
    /\ save_done_button = TRUE
    /\ table = NewTable
    /\ call = NoCall

InitFill ==
    /\ InitForm
    /\ parts_file \in PartsFiles

\* a dialog filling its order table, on any parts file
NextFill ==
    \E part_number \in PartNumbers, lookup_raises \in BOOLEAN :
        fill_order_table_fields(part_number, lookup_raises)

SpecFill == InitFill /\ [][NextFill]_vars

\* a dialog filling its order table and enabling and disabling its save
\* buttons, on a parts file that holds every order and MaxLines order lines
InitSave ==
    /\ InitForm
    /\ parts_file \in { f \in PartsFiles :
                           /\ f.orders = OrderRecords
                           /\ Len(f.order_lines) = MaxLines }

NextSave ==
    \/ \E part_number \in PartNumbers, lookup_raises \in BOOLEAN :
           fill_order_table_fields(part_number, lookup_raises)
    \/ \E enable \in BOOLEAN : save_buttons_enable(enable)

SpecSave == InitSave /\ [][NextSave]_vars

-----------------------------------------------------------------------------
(* The dialog setting the header of a table. *)

\* the lists of names and of widths handed in: the class's own, and the
\* short lists cut from them
ColNames ==
    { SubSeq(PART_ORDER_COL_NAMES, from, from + n - 1) :
        from \in 1 .. 2, n \in 0 .. MaxNames }
        \cup {PART_ORDER_COL_NAMES}

ColWidths ==
    { SubSeq(PART_ORDER_COL_WIDTHS, 1, n) : n \in 0 .. MaxWidths }
        \cup {PART_ORDER_COL_WIDTHS}

StretchColumns ==
    {{}} \cup { {i} : i \in 0 .. MaxNames }
         \cup {{Len(PART_ORDER_COL_NAMES) - 1}}

EmptyFile == [orders |-> {}, order_lines |-> <<>>]

InitHeader ==
    /\ InitForm
    /\ parts_file = EmptyFile

NextHeader ==
    \E col_names \in ColNames, col_widths \in ColWidths,
       stretch_column \in StretchColumns :
        set_table_header(col_names, col_widths, stretch_column)

SpecHeader == InitHeader /\ [][NextHeader]_vars

-----------------------------------------------------------------------------
(* What the order table is to show, stated from the parts file. *)

Filled == call.op = "fill_order_table_fields"
Returned == Filled /\ ~call.raised

\* the positions, in the parts file, of the order lines of a part
LinesOfPart(part_number) ==
    { i \in 1 .. Len(parts_file.order_lines) :
        parts_file.order_lines[i].part_number = part_number }

\* the text under the column named name for an order line
Shown(name, l) ==
    LET found == { o \in parts_file.orders : o.order_number = l.order_number }
    IN  CASE name = "Order" -> l.order_number
          [] name = "Date" ->
                IF found = {} THEN "" ELSE (CHOOSE o \in found : TRUE).date
          [] name = "Source" ->
                IF found = {} THEN "" ELSE (CHOOSE o \in found : TRUE).source
          [] name = "Line" -> ToString(l.line)
          [] name = "Part Number" -> l.part_number
          [] name = "Cost Each" ->
                ToString(l.cost_each.tenths \div 10) \o "."
                    \o ToString(l.cost_each.tenths % 10) \o "0"
          [] name = "Quantity" -> ToString(l.quantity)
          [] name = "Remarks" -> l.remarks

\* row r of the order table displays the order line l
Displays(r, l) ==
    \A k \in OrderCols :
        /\ order_table[r + 1][k].item
        /\ order_table[r + 1][k].text = Shown(PART_ORDER_COL_NAMES[k + 1], l)

\* the rows the last call filled: all eight cells set by it
FilledRows ==
    { r \in 0 .. (Len(order_table) - 1) :
        \A k \in OrderCols : <<r, k>> \in call.cells }

\* the query result of the last call
QueryResult == OrderLineSet(parts_file, call.part_number)

-----------------------------------------------------------------------------
(* C1: after fill_order_table_fields(part_number) returns for a non-empty  *)
(* part_number, the order table has as many rows as the parts file has     *)
(* order lines of that part, row i displays the i-th order line of the     *)
(* query result (selected on part_number, ordered by order_number), and    *)
(* every order line of the part is displayed by exactly one row.           *)
C1_RowsAreTheQueryResult ==
    (Returned /\ call.part_number \notin {"", None}) =>
        /\ Len(order_table) = Cardinality(LinesOfPart(call.part_number))
        /\ Len(QueryResult) = Len(order_table)
        /\ \A r \in 0 .. (Len(order_table) - 1) :
              /\ Displays(r, QueryResult[r + 1])
              /\ QueryResult[r + 1].part_number = call.part_number
        /\ \A r \in 1 .. (Len(order_table) - 1) :
              OrderNumberRank[QueryResult[r].order_number]
                  <= OrderNumberRank[QueryResult[r + 1].order_number]
        /\ \A i \in LinesOfPart(call.part_number) :
              Cardinality({ r \in 0 .. (Len(order_table) - 1) :
                              Displays(r, parts_file.order_lines[i]) }) = 1

\* a call for P1 returned on a file that holds two order lines of P1, stored
\* against the order of their order numbers, and a line of another part
C1_Witness ==
    /\ Returned
    /\ call.part_number = "P1"
    /\ Len(order_table) = 2
    /\ Len(parts_file.order_lines) = 3
    /\ parts_file.order_lines[1].order_number = "23-002"
    /\ parts_file.order_lines[1].part_number = "P1"
    /\ parts_file.order_lines[3].order_number = "23-001"
    /\ parts_file.order_lines[3].part_number = "P1"

(* C2: in every row fill_order_table_fields fills, all eight cells are set *)
(* and column k holds the value named by PART_ORDER_COL_NAMES[k]; a call   *)
(* that returns fills every row; two rows with the same order number show  *)
(* the same date and source.                                               *)
C2_ColumnsHoldNamedValues ==
    Filled =>
        /\ Returned => FilledRows = 0 .. (Len(order_table) - 1)
        /\ \A r \in FilledRows : Displays(r, QueryResult[r + 1])
        /\ \A r1, r2 \in FilledRows :
              order_table[r1 + 1][0].text = order_table[r2 + 1][0].text =>
                  /\ order_table[r1 + 1][1].text = order_table[r2 + 1][1].text
                  /\ order_table[r1 + 1][2].text = order_table[r2 + 1][2].text

\* two filled rows of one order, with the order's date and source
C2_Witness ==
    /\ Returned
    /\ Len(order_table) = 2
    /\ FilledRows = {0, 1}
    /\ order_table[1][0].text = "23-002"
    /\ order_table[2][0].text = "23-002"
    /\ order_table[1][1].text = "02/10/2023"
    /\ order_table[2][2].text = "Ebay"
    /\ order_table[1][3].text # order_table[2][3].text
    /\ order_table[1][3].text # order_table[1][6].text

(* C4: in every row fill_order_table_fields fills, Cost Each (column 5) is *)
(* right-aligned and vertically centered, Line (column 3) and Quantity     *)
(* (column 6) are horizontally and vertically centered.                    *)
C4_NumericFieldsAligned ==
    Filled =>
        \A r \in FilledRows :
            /\ order_table[r + 1][5].align = {"AlignRight", "AlignVCenter"}
            /\ order_table[r + 1][3].align = {"AlignHCenter", "AlignVCenter"}
            /\ order_table[r + 1][6].align = {"AlignHCenter", "AlignVCenter"}

C4_Witness ==
    /\ Returned
    /\ FilledRows = {0, 1}
    /\ order_table[1][5].text = "3.50"
    /\ order_table[2][5].text = "0.70"

(* C5: after save_buttons_enable(enable) both save buttons have enabled    *)
(* state enable; after any sequence of calls the two buttons have the      *)
(* state given by the last save_buttons_enable, and that call leaves the   *)
(* order table unchanged.                                                  *)
C5_SaveButtonsFollowLastCall ==
    /\ call.saved # {} =>
          /\ call.saved = {save_new_button}
          /\ call.saved = {save_done_button}
    /\ call.op = "save_buttons_enable" => order_table = call.before

\* the buttons were disabled while the order table held rows
C5_Witness ==
    /\ call.op = "save_buttons_enable"
    /\ call.saved = {FALSE}
    /\ ~save_new_button
    /\ Len(order_table) = 2

(* C6: the rows after a call that returns depend only on the parts file    *)
(* and the part_number argument: they are the rows the call gives on an    *)
(* empty table, no row shows another part, and a second call with the      *)
(* same argument leaves the table as the first left it.                    *)
C6_NoCaching ==
    /\ [](Returned =>
            /\ order_table =
                  FillOrderTable(<<>>, parts_file, call.part_number, FALSE).rows
            /\ \A r \in 0 .. (Len(order_table) - 1) :
                  order_table[r + 1][4].text = call.part_number)
    /\ [][(Returned /\ Returned' /\ call'.part_number = call.part_number)
            => order_table' = order_table]_vars

\* a call for P2 returned with one row on a table that held two rows of P1
C6_Witness ==
    /\ Returned
    /\ call.part_number = "P2"
    /\ Len(order_table) = 1
    /\ Len(call.before) = 2
    /\ call.before[1][4].text = "P1"
    /\ call.before[2][4].text = "P1"

\* building the row of order line l raises: at column 0 when the order
\* lookup raises, at column 5 when cost_each is no number
RowRaises(l) ==
    \/ call.lookup_raises /\ { o \in parts_file.orders :
                                 o.order_number = l.order_number } = {}
    \/ ~l.cost_each.numeric

RaisingColumn(l) ==
    IF call.lookup_raises /\ { o \in parts_file.orders :
                                 o.order_number = l.order_number } = {}
    THEN 0
    ELSE 5

\* cell (r, k) is as the call found it once the row count was set
NotSet(r, k) ==
    /\ <<r, k>> \notin call.cells
    /\ order_table[r + 1][k] =
          IF r < Len(call.before) THEN call.before[r + 1][k] ELSE NoItem

(* C7: when building row r raises, the call raises and the table is not    *)
(* rolled back: the row count is the new query's count, the rows before r  *)
(* hold the new contents, row r holds them up to the failing column, and   *)
(* the cells of row r from the failing column on and of all later rows     *)
(* are not set by the call.                                                *)
C7_NoFailureRecovery ==
    Filled =>
        LET n == Len(QueryResult)
            raising == { r \in 0 .. (n - 1) : RowRaises(QueryResult[r + 1]) }
        IN  /\ call.raised <=> (call.part_number \notin {"", None} /\ raising # {})
            /\ call.raised =>
                  LET r == CHOOSE x \in raising : \A y \in raising : x <= y
                      c == RaisingColumn(QueryResult[r + 1])
                  IN  /\ Len(order_table) = n
                      /\ \A i \in 0 .. (r - 1) : Displays(i, QueryResult[i + 1])
                      /\ \A k \in 0 .. (c - 1) :
                            /\ <<r, k>> \in call.cells
                            /\ order_table[r + 1][k].text =
                                  Shown(PART_ORDER_COL_NAMES[k + 1],
                                        QueryResult[r + 1])
                      /\ \A k \in OrderCols : k >= c => NotSet(r, k)
                      /\ \A i \in (r + 1) .. (n - 1) :
                            \A k \in OrderCols : NotSet(i, k)

\* the order lookup raised for the second of two rows, on a table whose
\* second row an earlier call had filled up to the cost: the row keeps the
\* earlier items
C7_Witness ==
    /\ Filled
    /\ call.raised
    /\ call.lookup_raises
    /\ Len(order_table) = 2
    /\ Len(call.before) = 2
    /\ call.cells = { <<0, k>> : k \in OrderCols }
    /\ order_table[2][0].item
    /\ order_table[2][4].text = "P1"
    /\ ~order_table[2][5].item

(* C9: for an empty part_number (the empty string or None) the call        *)
(* leaves the order table with no row and sets no cell, whatever the       *)
(* parts file holds.                                                       *)
C9_EmptyPartNumberEmptiesTable ==
    (Filled /\ call.part_number \in {"", None}) =>
        /\ order_table = <<>>
        /\ call.cells = {}
        /\ ~call.raised

\* the call was made with the empty string on a table with rows, the file
\* holding an order line whose part number is empty
C9_Witness ==
    /\ Filled
    /\ call.part_number = ""
    /\ Len(call.before) = 2
    /\ LinesOfPart("") # {}
    /\ order_table = <<>>

-----------------------------------------------------------------------------
(* The header a call of set_table_header leaves. *)

HeaderSet == call.op = "set_table_header"

(* C3: after set_table_header(table, col_names, col_widths, stretch) the   *)
(* table's column count is len(col_names) and its header labels are        *)
(* col_names in order, whatever calls came before; PART_ORDER_COL_NAMES    *)
(* and PART_ORDER_COL_WIDTHS both have length 8.                           *)
C3_HeaderIsColNames ==
    /\ HeaderSet =>
          /\ columnCount(table) = Len(call.col_names)
          /\ \A i \in 0 .. (Len(call.col_names) - 1) :
                table.labels[i + 1] = call.col_names[i + 1]
    /\ Len(PART_ORDER_COL_NAMES) = 8
    /\ Len(PART_ORDER_COL_WIDTHS) = 8

\* two names were set with three widths
C3_Witness ==
    /\ HeaderSet
    /\ call.col_names = <<"Date", "Source">>
    /\ Len(call.col_widths) = 3
    /\ table.labels = <<"Date", "Source">>

(* C8: set_table_header puts a column into stretch mode exactly when       *)
(* stretch_column is not None, and then the column numbered                *)
(* stretch_column only, column 0 included; with None the resize mode of    *)
(* no column is changed.  A column the call adds is interactive.           *)
C8_StretchOnlyTheAskedColumn ==
    [][ HeaderSet' =>
          /\ call'.stretch_calls = call'.stretch_column
          /\ \A c \in 0 .. (columnCount(table') - 1) :
                table'.modes[c + 1] =
                    IF call'.stretch_column = {c}
                    THEN "Stretch"
                    ELSE IF c < columnCount(table)
                         THEN table.modes[c + 1]
                         ELSE "Interactive" ]_vars

\* column 0 was asked for and is the one column of two in stretch mode
C8_Witness ==
    /\ HeaderSet
    /\ call.stretch_column = {0}
    /\ table.modes = <<"Stretch", "Interactive">>

====
